---- MODULE Spec2Model ----
(***************************************************************************)
(* Model of the Keysight function-generator facade                          *)
(* (src/Keysight_66322A.py, class Keysight_36622A) and of the spyrelet task *)
(* that drives it (src/arbseq_spyrelet.py, class ArbSeq).                   *)
(*                                                                          *)
(* A command string is a sequence of tokens: the literal pieces of the      *)
(* format template ("SOURCE", ":VOLT", " ", "?"), and the characters the    *)
(* formatted arguments expand to ("1", "-", "5").  The string is the        *)
(* concatenation of its tokens.                                             *)
(***************************************************************************)
EXTENDS Integers, Sequences, FiniteSets, TLC

\* ------------------------------------------------------------------ bounds

\* Number of facade operations a client issues in one behaviour of Spec.
MaxOps == 3
\* Longest waveform the builder hands to the task.
MaxLen == 3
\* The float parameter timestep is sampled in steps of 1/Resolution.
Resolution == 2

\* ------------------------------------------------------------- input sets

\* keys=(1, 2) of every DictFeat; items {'1': 1, '2': 2} of the channel parameter.
Keys == {1, 2}
\* Numbers a client assigns to a numeric setting.
Nums == {-1, 12}
\* Waveform function names a client assigns.
Names == {<<"SQR">>}
\* Value of the trigger-source, sweep and sweep-limit settings, file name of
\* the load operations, register values of *ESE.
Source == <<"BUS">>
Mode == <<"LINEAR">>
FileName == <<"a.arb">>
Registers == {12}
Limit == CHOOSE n \in Nums : n > 0
\* Values of a waveform sample.
Samples == {0, 1}
\* Values of the timestep parameter, in units of 1/Resolution: negative, zero,
\* below one, one, above one.
TimeSteps == {-1, 0, 1, Resolution, 2 * Resolution}
\* Entries of the x list the model keeps: every list a terminating loop builds.
XCap == MaxLen * Resolution
\* What the instrument may answer for a setting that was never written.
Replies == {<<>>, <<"7">>, <<"+", "0", "5">>, <<"ERR">>}

\* ------------------------------------------------------ text conversions

DigitChar == <<"0", "1", "2", "3", "4", "5", "6", "7", "8", "9">>

RECURSIVE Digits(_)
Digits(n) ==
    IF n < 10 THEN <<DigitChar[n + 1]>>
    ELSE Append(Digits(n \div 10), DigitChar[(n % 10) + 1])

\* str.format's rendering of an integer argument: '{}'.format(n).
Str(n) == IF n < 0 THEN <<"-">> \o Digits(-n) ELSE Digits(n)

IsDigit(c) == \E d \in 0..9 : DigitChar[d + 1] = c
DigitVal(c) == CHOOSE d \in 0..9 : DigitChar[d + 1] = c

Unsigned(t) == IF t # <<>> /\ t[1] \in {"-", "+"} THEN Tail(t) ELSE t

\* Whether float(t) accepts the text (the model's texts are integer numerals
\* or not numerals at all).
IsNumeral(t) ==
    /\ Unsigned(t) # <<>>
    /\ \A k \in DOMAIN Unsigned(t) : IsDigit(Unsigned(t)[k])

RECURSIVE Horner(_)
Horner(t) ==
    IF t = <<>> THEN 0
    ELSE 10 * Horner(SubSeq(t, 1, Len(t) - 1)) + DigitVal(t[Len(t)])

\* float(t) on a numeral.
FloatVal(t) ==
    IF t # <<>> /\ t[1] = "-" THEN 0 - Horner(Unsigned(t)) ELSE Horner(Unsigned(t))

\* ------------------------------------------------------------------ state

VARIABLES
    pc,        \* facade: "idle", or "waiting" inside query() for the reply
    cur,       \* the facade operation last invoked
    sent,      \* the call the transport received last
    nops,      \* facade operations invoked so far
    nsent,     \* commands the transport has received so far
    reply,     \* text of the last reply the transport returned
    result,    \* outcome of the operation last completed
    mem,       \* instrument: command prefix -> text last written
    written,   \* <<setting, key>> -> number or text last assigned successfully
    answersAll, \* whether the instrument also replies to commands without "?"
    step,      \* task: position in the run
    params,    \* task: the parameters last read from the widget
    ydata,     \* task: the samples of the built waveform
    xdata,     \* task: the x list built by the loop
    x,         \* task: the loop variable, in units of 1/Resolution
    i,         \* task: index of the acquire loop
    spin,      \* task: parity of the iterations made once xdata is cut off
    data,      \* task: the records acquired
    events,    \* task: the steps performed, in order
    failedAt   \* task: the step that raised, or "none"

facadeVars == <<pc, cur, sent, nops, nsent, reply, result, mem, written, answersAll>>
taskVars == <<step, params, ydata, xdata, x, i, spin, data, events, failedAt>>
vars == <<pc, cur, sent, nops, nsent, reply, result, mem, written, answersAll,
          step, params, ydata, xdata, x, i, spin, data, events, failedAt>>

\* ------------------------------------------------------------- transport

NoResult == [kind |-> "none", num |-> 0, text |-> <<>>]
None == [kind |-> "None", num |-> 0, text |-> <<>>]
FloatResult(n) == [kind |-> "float", num |-> n, text |-> <<>>]
StrResult(t) == [kind |-> "str", num |-> 0, text |-> t]
\* An exception reaching the caller.
Raised(what) == [kind |-> "error", num |-> 0, text |-> <<what>>]

Op(name, access, key, num, text, parse) ==
    [name |-> name, access |-> access, key |-> key, num |-> num, text |-> text,
     parse |-> parse]
NoOp == Op("none", "none", 0, 0, <<>>, "none")

HasQ(cmd) == cmd # <<>> /\ cmd[Len(cmd)] = "?"
HasSpace(cmd) == \E k \in DOMAIN cmd : cmd[k] = " "
SpaceAt(cmd) == CHOOSE k \in DOMAIN cmd : cmd[k] = " "

\* The stub instrument remembers, per command prefix, the text last sent
\* after the separating space.
StubStore(m, cmd) ==
    IF HasSpace(cmd)
    THEN LET pre == SubSeq(cmd, 1, SpaceAt(cmd) - 1)
             val == SubSeq(cmd, SpaceAt(cmd) + 1, Len(cmd))
         IN [p \in DOMAIN m \cup {pre} |-> IF p = pre THEN val ELSE m[p]]
    ELSE m

\* The texts the stub may answer a command with: the remembered text of the
\* prefix, anything when the prefix was never written.
StubAnswers(m, cmd) ==
    LET pre == IF HasQ(cmd) THEN SubSeq(cmd, 1, Len(cmd) - 1) ELSE cmd
    IN IF pre \in DOMAIN m THEN {m[pre]} ELSE Replies

\* self.write(cmd): one blocking call; the command reaches the instrument,
\* or the transport raises.
write(cmd) ==
    /\ sent' = [kind |-> "write", cmd |-> cmd]
    /\ nsent' = nsent + 1
    /\ \E ok \in BOOLEAN :
        /\ mem' = IF ok THEN StubStore(mem, cmd) ELSE mem
        /\ result' = IF ok THEN None ELSE Raised("transport")
    /\ pc' = "idle"
    /\ UNCHANGED <<reply, answersAll>>

\* self.query(cmd): the command is sent and the call blocks for the reply.
query(cmd) ==
    /\ sent' = [kind |-> "query", cmd |-> cmd]
    /\ nsent' = nsent + 1
    /\ mem' = StubStore(mem, cmd)
    /\ pc' = "waiting"
    /\ UNCHANGED <<reply, result, answersAll>>

\* What the facade method makes of the reply text.
Parsed(parse, t) ==
    CASE parse = "float" -> IF IsNumeral(t) THEN FloatResult(FloatVal(t))
                            ELSE Raised("ValueError")
      [] parse = "str" -> StrResult(t)
      [] OTHER -> None

\* The reply arrives and the method returns.
Reply ==
    /\ pc = "waiting"
    /\ HasQ(sent.cmd) \/ answersAll
    /\ \E t \in StubAnswers(mem, sent.cmd) :
        /\ reply' = t
        /\ result' = Parsed(cur.parse, t)
    /\ pc' = "idle"
    /\ UNCHANGED <<cur, sent, nops, nsent, mem, written, answersAll>>

\* The blocking read ends with the transport raising (timeout, connection
\* loss); the exception propagates out of the method.
Timeout ==
    /\ pc = "waiting"
    /\ result' = Raised("transport")
    /\ pc' = "idle"
    /\ UNCHANGED <<cur, sent, nops, nsent, reply, mem, written, answersAll>>

\* Entry of a facade method.
Begin(op) ==
    /\ pc = "idle"
    /\ cur' = op
    /\ nops' = nops + 1

\* ------------------------------------------------- facade: Keysight_36622A

\* Ghost of a successful assignment: the value the caller last gave the
\* setting <<name, key>>.
Assigned(name, key, num, text) ==
    IF result'.kind = "None"
    THEN [s \in DOMAIN written \cup {<<name, key>>} |->
            IF s = <<name, key>> THEN [num |-> num, text |-> text] ELSE written[s]]
    ELSE written

idn ==
    /\ Begin(Op("idn", "get", 0, 0, <<>>, "str"))
    /\ query(<<"*IDN", "?">>)
    /\ UNCHANGED written

clear_status ==
    /\ Begin(Op("clear_status", "action", 0, 0, <<>>, "none"))
    /\ query(<<"*CLS">>)
    /\ UNCHANGED written

event_status_enable(NRf) ==
    /\ Begin(Op("event_status_enable", "get", 0, NRf, <<>>, "str"))
    /\ query(<<"*ESE">> \o Str(NRf))
    /\ UNCHANGED written

read_standard_event_status_register ==
    /\ Begin(Op("read_standard_event_status_register", "get", 0, 0, <<>>, "str"))
    /\ query(<<"*ESR", "?">>)
    /\ UNCHANGED written

operation_complete ==
    /\ Begin(Op("operation_complete", "action", 0, 0, <<>>, "none"))
    /\ query(<<"*OPC">>)
    /\ UNCHANGED written

operation_completed ==
    /\ Begin(Op("operation_completed", "action", 0, 0, <<>>, "str"))
    /\ query(<<"*OPC", "?">>)
    /\ UNCHANGED written

trigger ==
    /\ Begin(Op("trigger", "action", 0, 0, <<>>, "none"))
    /\ query(<<"*TRG">>)
    /\ UNCHANGED written

test ==
    /\ Begin(Op("test", "get", 0, 0, <<>>, "str"))
    /\ query(<<"*TST", "?">>)
    /\ UNCHANGED written

wait ==
    /\ Begin(Op("wait", "action", 0, 0, <<>>, "none"))
    /\ query(<<"*WAI">>)
    /\ UNCHANGED written

\* A getter that answers from the value last assigned instead of querying.
voltage_get_cached(key) ==
    /\ Begin(Op("voltage", "get", key, 0, <<>>, "float"))
    /\ IF <<"voltage", key>> \in DOMAIN written
       THEN /\ result' = FloatResult(written[<<"voltage", key>>].num)
            /\ pc' = "idle"
            /\ UNCHANGED <<sent, nsent, mem, reply, answersAll>>
       ELSE query(<<"SOURCE">> \o Str(key) \o <<":VOLT", "?">>)
    /\ UNCHANGED written

voltage_get(key) ==
    /\ Begin(Op("voltage", "get", key, 0, <<>>, "float"))
    /\ query(<<"SOURCE">> \o Str(key) \o <<":VOLT", "?">>)
    /\ UNCHANGED written

\* A setter whose template lacks the space before the value.
voltage_set_nospace(key, value) ==
    /\ Begin(Op("voltage", "set", key, value, <<>>, "none"))
    /\ write(<<"SOURCE">> \o Str(key) \o <<":VOLT">> \o Str(value))
    /\ written' = Assigned("voltage", key, value, <<>>)

voltage_set(key, value) ==
    /\ Begin(Op("voltage", "set", key, value, <<>>, "none"))
    /\ write(<<"SOURCE">> \o Str(key) \o <<":VOLT", " ">> \o Str(value))
    /\ written' = Assigned("voltage", key, value, <<>>)

offset_get(key) ==
    /\ Begin(Op("offset", "get", key, 0, <<>>, "float"))
    /\ query(<<"SOURCE">> \o Str(key) \o <<":VOLT:OFFS", "?">>)
    /\ UNCHANGED written

\* An offset setter that sends the voltage command.
offset_set_volt(key, value) ==
    /\ Begin(Op("offset", "set", key, value, <<>>, "none"))
    /\ write(<<"SOURCE">> \o Str(key) \o <<":VOLT", " ">> \o Str(value))
    /\ written' = Assigned("offset", key, value, <<>>)

offset_set(key, value) ==
    /\ Begin(Op("offset", "set", key, value, <<>>, "none"))
    /\ write(<<"SOURCE">> \o Str(key) \o <<":VOLT:OFFS", " ">> \o Str(value))
    /\ written' = Assigned("offset", key, value, <<>>)

\* A frequency getter that hands the reply text back unparsed.
frequency_get_raw(key) ==
    /\ Begin(Op("frequency", "get", key, 0, <<>>, "str"))
    /\ query(<<"SOURCE">> \o Str(key) \o <<":FREQ", "?">>)
    /\ UNCHANGED written

frequency_get(key) ==
    /\ Begin(Op("frequency", "get", key, 0, <<>>, "float"))
    /\ query(<<"SOURCE">> \o Str(key) \o <<":FREQ", "?">>)
    /\ UNCHANGED written

frequency_set(key, value) ==
    /\ Begin(Op("frequency", "set", key, value, <<>>, "none"))
    /\ write(<<"SOURCE">> \o Str(key) \o <<":FREQ", " ">> \o Str(value))
    /\ written' = Assigned("frequency", key, value, <<>>)

waveform_get(key) ==
    /\ Begin(Op("waveform", "get", key, 0, <<>>, "str"))
    /\ query(<<"SOURCE">> \o Str(key) \o <<":FUNC", "?">>)
    /\ UNCHANGED written

waveform_set(key, value) ==
    /\ Begin(Op("waveform", "set", key, 0, value, "none"))
    /\ write(<<"SOURCE">> \o Str(key) \o <<":FUNC", " ">> \o value)
    /\ written' = Assigned("waveform", key, 0, value)

load_arbitrary(filename, key) ==
    /\ Begin(Op("load_arbitrary", "get", key, 0, filename, "none"))
    /\ query(<<"MMEM:LOAD:DATA">> \o Str(key) \o filename)
    /\ UNCHANGED written

load_frequencies(filename, key) ==
    /\ Begin(Op("load_frequencies", "get", key, 0, filename, "none"))
    /\ query(<<"MMEM:LOAD:LIST">> \o Str(key) \o filename)
    /\ UNCHANGED written

abort ==
    /\ Begin(Op("abort", "action", 0, 0, <<>>, "none"))
    /\ query(<<"ABORT">>)
    /\ UNCHANGED written

freq_start(key, value) ==
    /\ Begin(Op("freq_start", "set", key, value, <<>>, "none"))
    /\ write(<<"SOUR">> \o Str(key) \o <<":FREQ:START">> \o Str(value))
    /\ UNCHANGED written

freq_stop(key, value) ==
    /\ Begin(Op("freq_stop", "set", key, value, <<>>, "none"))
    /\ write(<<"SOUR">> \o Str(key) \o <<":FREQ:STOP">> \o Str(value))
    /\ UNCHANGED written

trigger_source_get(key) ==
    /\ Begin(Op("trigger_source", "get", key, 0, <<>>, "str"))
    /\ query(<<"TRIG">> \o Str(key) \o <<":SOURCE", "?">>)
    /\ UNCHANGED written

trigger_source_set(key, value) ==
    /\ Begin(Op("trigger_source", "set", key, 0, value, "none"))
    /\ write(<<"TRIG">> \o Str(key) \o <<":SOURCE">> \o value)
    /\ UNCHANGED written

force_trigger(key) ==
    /\ Begin(Op("force_trigger", "get", key, 0, <<>>, "none"))
    /\ query(<<"TRIG">> \o Str(key))
    /\ UNCHANGED written

sweep_mode_get(key) ==
    /\ Begin(Op("sweep_mode", "get", key, 0, <<>>, "str"))
    /\ query(<<"SOURCE">> \o Str(key) \o <<":SWEEP:SPAC", "?">>)
    /\ UNCHANGED written

sweep_mode_set(key, value) ==
    /\ Begin(Op("sweep_mode", "set", key, 0, value, "none"))
    /\ query(<<"SOURCE">> \o Str(key) \o <<":SWEEP:SPAC", " ">> \o value)
    /\ UNCHANGED written

sweep_time_get(key) ==
    /\ Begin(Op("sweep_time", "get", key, 0, <<>>, "str"))
    /\ query(<<"SOURCE">> \o Str(key) \o <<":SWEEP:TIME", "?">>)
    /\ UNCHANGED written

sweep_time_set(key, value) ==
    /\ Begin(Op("sweep_time", "set", key, value, <<>>, "none"))
    /\ query(<<"SOURCE">> \o Str(key) \o <<":SWEEP:TIME", " ">> \o Str(value))
    /\ UNCHANGED written

get_error ==
    /\ Begin(Op("get_error", "get", 0, 0, <<>>, "str"))
    /\ query(<<"SYSTEM:ERROR", "?">>)
    /\ UNCHANGED written

\* --------------------------------------------------- a client of the facade

EmptyMap == [s \in {} |-> <<>>]

FacadeInit ==
    /\ pc = "idle"
    /\ cur = NoOp
    /\ sent = [kind |-> "none", cmd |-> <<>>]
    /\ nops = 0
    /\ nsent = 0
    /\ reply = <<>>
    /\ result = NoResult
    /\ mem = EmptyMap
    /\ written = EmptyMap

TaskIdle ==
    /\ step = "start"
    /\ params = [channel |-> 1, voltage |-> 0, timestep |-> Resolution]
    /\ ydata = <<>>
    /\ xdata = <<>>
    /\ x = 0
    /\ i = 0
    /\ spin = FALSE
    /\ data = <<>>
    /\ events = <<>>
    /\ failedAt = "none"

\* The instrument of the facade's client answers only commands ending in "?".
Init ==
    /\ FacadeInit
    /\ answersAll = FALSE
    /\ TaskIdle

\* One call of a client: any property read, assignment or action.
Call(method) ==
    /\ nops < MaxOps
    /\ method
    /\ UNCHANGED taskVars

Return(arrival) ==
    /\ arrival
    /\ UNCHANGED taskVars

Next ==
    \/ Call(idn)
    \/ Call(clear_status)
    \/ \E NRf \in Registers : Call(event_status_enable(NRf))
    \/ Call(read_standard_event_status_register)
    \/ Call(operation_complete)
    \/ Call(operation_completed)
    \/ Call(trigger)
    \/ Call(test)
    \/ Call(wait)
    \/ \E key \in Keys : Call(voltage_get(key))
    \/ \E key \in Keys, value \in Nums : Call(voltage_set(key, value))
    \/ \E key \in Keys : Call(offset_get(key))
    \/ \E key \in Keys, value \in Nums : Call(offset_set(key, value))
    \/ \E key \in Keys : Call(frequency_get(key))
    \/ \E key \in Keys, value \in Nums : Call(frequency_set(key, value))
    \/ \E key \in Keys : Call(waveform_get(key))
    \/ \E key \in Keys, value \in Names : Call(waveform_set(key, value))
    \/ \E key \in Keys : Call(load_arbitrary(FileName, key))
    \/ \E key \in Keys : Call(load_frequencies(FileName, key))
    \/ Call(abort)
    \/ \E key \in Keys : Call(freq_start(key, Limit))
    \/ \E key \in Keys : Call(freq_stop(key, Limit))
    \/ \E key \in Keys : Call(trigger_source_get(key))
    \/ \E key \in Keys : Call(trigger_source_set(key, Source))
    \/ \E key \in Keys : Call(force_trigger(key))
    \/ \E key \in Keys : Call(sweep_mode_get(key))
    \/ \E key \in Keys : Call(sweep_mode_set(key, Mode))
    \/ \E key \in Keys : Call(sweep_time_get(key))
    \/ \E key \in Keys : Call(sweep_time_set(key, Limit))
    \/ Call(get_error)
    \/ Return(Reply)
    \/ Return(Timeout)

Spec == Init /\ [][Next]_vars


\* --------------------------------------- facade: the methods ArbSeq calls
\* that Keysight_36622A does not define (fungen is a Keysight_33622A).

output_set(key, value) ==
    /\ Begin(Op("output", "set", key, 0, value, "none"))
    /\ write(<<"OUTPUT">> \o Str(key) \o <<" ">> \o value)
    /\ UNCHANGED written

send_arb(arbseq, chn) ==
    /\ Begin(Op("send_arb", "action", chn, Len(arbseq), <<>>, "none"))
    /\ write(<<"SOURCE">> \o Str(chn) \o <<":DATA:ARB">>)
    /\ UNCHANGED written

\* ------------------------------------------------------------ task: ArbSeq

Ev(name, ch, num) == [ev |-> name, ch |-> ch, num |-> num]

Waveforms == UNION {[1..n -> Samples] : n \in 0..MaxLen}

\* The facade call made by the previous step returned normally.
Returned == pc = "idle" /\ result.kind # "error"

\* initialize: params = self.arbseq_parameters.widget.get()
initialize_params ==
    /\ step = "start"
    /\ \E channel \in Keys, voltage \in Nums :
        params' = [params EXCEPT !.channel = channel, !.voltage = voltage]
    /\ events' = Append(events, Ev("read_params", 0, 0))
    /\ step' = "clear_status"
    /\ UNCHANGED <<ydata, xdata, x, i, spin, data, failedAt>>
    /\ UNCHANGED facadeVars

\* initialize: self.fungen.clear_status()
initialize_clear_status ==
    /\ step = "clear_status"
    /\ clear_status
    /\ events' = Append(events, Ev("clear_status", 0, 0))
    /\ step' = "voltage"
    /\ UNCHANGED <<params, ydata, xdata, x, i, spin, data, failedAt>>

\* An initializer that sets the voltage of the other channel.
initialize_voltage_other ==
    /\ step = "voltage"
    /\ Returned
    /\ voltage_set(3 - params.channel, params.voltage)
    /\ events' = Append(events, Ev("voltage", 3 - params.channel, params.voltage))
    /\ step' = "output"
    /\ UNCHANGED <<params, ydata, xdata, x, i, spin, data, failedAt>>

\* initialize: self.fungen.voltage[channel] = params['voltage']
initialize_voltage ==
    /\ step = "voltage"
    /\ Returned
    /\ voltage_set(params.channel, params.voltage)
    /\ events' = Append(events, Ev("voltage", params.channel, params.voltage))
    /\ step' = "output"
    /\ UNCHANGED <<params, ydata, xdata, x, i, spin, data, failedAt>>

\* An initializer that never enables the output.
initialize_output_omitted ==
    /\ step = "output"
    /\ Returned
    /\ step' = "make_arb"
    /\ UNCHANGED <<params, ydata, xdata, x, i, spin, data, events, failedAt>>
    /\ UNCHANGED facadeVars

\* initialize: self.fungen.output[channel] = 'ON'
initialize_output ==
    /\ step = "output"
    /\ Returned
    /\ output_set(params.channel, <<"ON">>)
    /\ events' = Append(events, Ev("output", params.channel, 0))
    /\ step' = "make_arb"
    /\ UNCHANGED <<params, ydata, xdata, x, i, spin, data, failedAt>>

\* make_arb: params = self.arbseq_parameters.widget.get()
make_arb_params ==
    /\ step = "make_arb"
    /\ Returned
    /\ \E channel \in Keys, timestep \in TimeSteps :
        params' = [params EXCEPT !.channel = channel, !.timestep = timestep]
    /\ events' = Append(events, Ev("read_params", 0, 0))
    /\ step' = "build"
    /\ UNCHANGED <<ydata, xdata, x, i, spin, data, failedAt>>
    /\ UNCHANGED facadeVars

\* make_arb: the builder's waveform; ydata = arbseq.ydata; xdata = list(); x = 0
make_arb_build ==
    /\ step = "build"
    /\ ydata' \in Waveforms
    /\ xdata' = <<>>
    /\ x' = 0
    /\ events' = Append(events, Ev("build", 0, 0))
    /\ step' = "xloop"
    /\ UNCHANGED <<params, i, spin, data, failedAt>>
    /\ UNCHANGED facadeVars

\* make_arb: while x < len(ydata): xdata.append(x); x += timestep
\* One iteration, or the exit.  A list that outgrows XCap (only when the loop
\* cannot exit) is cut off there, and the parity of the further iterations kept.
make_arb_xloop ==
    /\ step = "xloop"
    /\ IF x < Len(ydata) * Resolution
       THEN /\ IF Len(xdata) < XCap
               THEN /\ xdata' = Append(xdata, x)
                    /\ x' = x + params.timestep
                    /\ spin' = spin
               ELSE /\ spin' = ~spin
                    /\ UNCHANGED <<xdata, x>>
            /\ UNCHANGED <<step, i>>
       ELSE /\ step' = "acquire"
            /\ i' = 0
            /\ UNCHANGED <<xdata, x, spin>>
    /\ UNCHANGED <<params, ydata, data, events, failedAt>>
    /\ UNCHANGED facadeVars

\* make_arb: for i in range(len(ydata)): acquire({'x': xdata[i], 'y': ydata[i]})
\* One iteration (xdata[i] raises IndexError past the end of the list), or
\* the exit.
make_arb_acquire ==
    /\ step = "acquire"
    /\ IF i < Len(ydata)
       THEN IF i < Len(xdata)
            THEN /\ data' = Append(data, [x |-> xdata[i + 1], y |-> ydata[i + 1]])
                 /\ i' = i + 1
                 /\ UNCHANGED <<step, failedAt>>
            ELSE /\ step' = "failed"
                 /\ failedAt' = "acquire"
                 /\ UNCHANGED <<data, i>>
       ELSE /\ step' = "send_arb"
            /\ UNCHANGED <<data, i, failedAt>>
    /\ UNCHANGED <<params, ydata, xdata, x, spin, events>>
    /\ UNCHANGED facadeVars

\* make_arb: self.fungen.send_arb(arbseq, chn=params['channel'])
make_arb_send ==
    /\ step = "send_arb"
    /\ send_arb(ydata, params.channel)
    /\ events' = Append(events, Ev("upload", params.channel, Len(data)))
    /\ step' = "dataset_clear"
    /\ UNCHANGED <<params, ydata, xdata, x, i, spin, data, failedAt>>

\* make_arb: self.dataset.clear()
make_arb_clear ==
    /\ step = "dataset_clear"
    /\ Returned
    /\ data' = <<>>
    /\ events' = Append(events, Ev("dataset_clear", 0, 0))
    /\ step' = "finalize"
    /\ UNCHANGED <<params, ydata, xdata, x, i, spin, failedAt>>
    /\ UNCHANGED facadeVars

\* finalize, after the task body returned.
finalize ==
    /\ step = "finalize"
    /\ events' = Append(events, Ev("finalize", 0, 0))
    /\ step' = "done"
    /\ UNCHANGED <<params, ydata, xdata, x, i, spin, data, failedAt>>
    /\ UNCHANGED facadeVars

\* A facade call raised: neither initialize nor make_arb catches, the run ends.
Raise ==
    /\ step \in {"voltage", "output", "make_arb", "dataset_clear"}
    /\ pc = "idle"
    /\ result.kind = "error"
    /\ step' = "failed"
    /\ failedAt' = cur.name
    /\ UNCHANGED <<params, ydata, xdata, x, i, spin, data, events>>
    /\ UNCHANGED facadeVars

\* Whether the finalizer also runs after a failed run is the task framework's
\* choice: both outcomes are kept.
finalize_after_error ==
    /\ step = "failed"
    /\ events' = Append(events, Ev("finalize", 0, 0))
    /\ step' = "stopped"
    /\ UNCHANGED <<params, ydata, xdata, x, i, spin, data, failedAt>>
    /\ UNCHANGED facadeVars

\* The instrument of a run may or may not answer commands without "?".
TaskInit ==
    /\ FacadeInit
    /\ answersAll \in BOOLEAN
    /\ TaskIdle

\* One run of the task 'send arbitrary waveform': the initializer, the task
\* body, the finalizer.
TaskNext ==
    \/ initialize_params
    \/ initialize_clear_status
    \/ initialize_voltage
    \/ initialize_output
    \/ make_arb_params
    \/ make_arb_build
    \/ make_arb_xloop
    \/ make_arb_acquire
    \/ make_arb_send
    \/ make_arb_clear
    \/ finalize
    \/ Raise
    \/ finalize_after_error
    \/ Return(Reply)
    \/ Return(Timeout)

TaskSpec == TaskInit /\ [][TaskNext]_vars

\* The program keeps running: a step that can be taken is taken.
TaskFair == TaskSpec /\ WF_vars(TaskNext)


\* ------------------------------------------------- properties of the facade

\* C1: one assignment voltage[key] = value sends the transport exactly the
\* write SOURCE{key}:VOLT {value}, and nothing else.
C1_VoltageSetterCommand ==
    [][(nops' = nops + 1 /\ cur'.name = "voltage" /\ cur'.access = "set")
        => /\ nsent' = nsent + 1
           /\ sent' = [kind |-> "write",
                       cmd |-> <<"SOURCE">> \o Str(cur'.key) \o <<":VOLT", " ">>
                                 \o Str(cur'.num)]
           /\ pc' = "idle"]_vars

C1_Witness ==
    /\ cur.name = "voltage" /\ cur.access = "set" /\ cur.key = 2 /\ cur.num = -1
    /\ sent = [kind |-> "write", cmd |-> <<"SOURCE", "2", ":VOLT", " ", "-", "1">>]
    /\ result = None

\* C2: with the remembering stub, a read of voltage, offset, frequency or
\* waveform of a channel returns the value last assigned to that setting of
\* that channel, whatever was called on other settings or channels since.
C2_ReadBack ==
    (/\ pc = "idle"
     /\ cur.access = "get"
     /\ cur.name \in {"voltage", "offset", "frequency", "waveform"}
     /\ <<cur.name, cur.key>> \in DOMAIN written
     /\ result # Raised("transport"))
    => IF cur.name = "waveform"
       THEN result = StrResult(written[<<cur.name, cur.key>>].text)
       ELSE result = FloatResult(written[<<cur.name, cur.key>>].num)

C2_Witness ==
    /\ pc = "idle"
    /\ cur.name = "voltage" /\ cur.access = "get" /\ cur.key = 1
    /\ {<<"voltage", 1>>, <<"offset", 1>>} \subseteq DOMAIN written
    /\ written[<<"voltage", 1>>].num = 12
    /\ written[<<"offset", 1>>].num = -1
    /\ result = FloatResult(12)

\* C4: every facade operation issues exactly one transport call: after n
\* operations the transport has received n commands, the last one by the
\* operation last invoked.
C4_OneCallPerOperation ==
    /\ nsent = nops
    /\ pc = "waiting" => sent.kind = "query"
    /\ nops > 0 => sent.kind \in {"write", "query"}

C4_Witness ==
    /\ nops = 3 /\ nsent = 3
    /\ pc = "idle"
    /\ cur.name = "voltage" /\ cur.access = "get"
    /\ <<"voltage", cur.key>> \in DOMAIN written
    /\ result.kind = "float"

\* C5: an assignment trigger_source[key] = value sends
\* TRIG{key}:SOURCE {value}, with a space before the value.
C5_TriggerSourceCommand ==
    (cur.name = "trigger_source" /\ cur.access = "set")
    => sent.cmd = <<"TRIG">> \o Str(cur.key) \o <<":SOURCE", " ">> \o cur.text

Pow10(n) == IF n = 0 THEN 1 ELSE IF n = 1 THEN 10 ELSE 100

\* The number an integer numeral of up to three digits denotes.
Denotes(t, n) ==
    LET u == Unsigned(t)
        digit(k) == CHOOSE d \in 0..9 : DigitChar[d + 1] = u[k]
        weight(k) == digit(k) * Pow10(Len(u) - k)
        abs == IF Len(u) = 1 THEN weight(1)
               ELSE IF Len(u) = 2 THEN weight(1) + weight(2)
               ELSE weight(1) + weight(2) + weight(3)
    IN /\ Len(u) \in 1..3
       /\ \A k \in DOMAIN u : \E d \in 0..9 : DigitChar[d + 1] = u[k]
       /\ n = IF t[1] = "-" THEN 0 - abs ELSE abs

\* C6: a read of frequency[key] sends the query SOURCE{key}:FREQ? and returns
\* the number the reply denotes; a reply that is no numeral, or a failing
\* transport, ends the read with an error, no value and no further command.
C6_FrequencyGetter ==
    (cur.name = "frequency" /\ cur.access = "get")
    => /\ sent = [kind |-> "query",
                  cmd |-> <<"SOURCE">> \o Str(cur.key) \o <<":FREQ", "?">>]
       /\ nsent = nops
       /\ pc = "idle" =>
            \/ result.kind = "float" /\ Denotes(reply, result.num)
            \/ result = Raised("transport")
            \/ /\ result = Raised("ValueError")
               /\ ~ \E n \in -999..999 : Denotes(reply, n)

C6_Witness ==
    /\ pc = "idle"
    /\ cur.name = "frequency" /\ cur.access = "get"
    /\ reply = <<"ERR">>
    /\ result = Raised("ValueError")
    /\ nsent = nops

\* C9: with an instrument that answers only commands ending in "?", no
\* facade operation waits for a reply to a command that carries no "?".
C9_NoWaitWithoutQuestion ==
    (~answersAll /\ pc = "waiting") => HasQ(sent.cmd)


\* --------------------------------------------------- properties of the task

EvNames == [k \in DOMAIN events |-> events[k].ev]

\* The order the specification gives the steps of a run.
ClaimedOrder ==
    <<"read_params", "build", "clear_status", "voltage", "output", "upload",
      "finalize">>

\* The order of the steps of a run: the initializer, the task body, the
\* finalizer.
RunOrder ==
    <<"read_params", "clear_status", "voltage", "output", "read_params", "build",
      "upload", "dataset_clear", "finalize">>

InClaimedOrder(n) == \E k \in DOMAIN ClaimedOrder : ClaimedOrder[k] = n

\* C3 as claimed: a completed run has read the parameters, built the
\* waveform, initialized the channel, uploaded and finalized, in this order,
\* each once.
C3_ClaimedOrder ==
    step = "done" => SelectSeq(EvNames, InClaimedOrder) = ClaimedOrder

\* C3 as amended: the steps of a run are taken in the order initializer (read
\* parameters, clear status, set voltage, enable output), task body (read
\* parameters, build, upload, clear the dataset), finalizer, each once in a
\* completed run; a failed run has taken a prefix of them, and possibly the
\* finalizer.
C3_RunOrder ==
    /\ step = "done" => EvNames = RunOrder
    /\ \E n \in 0..Len(RunOrder) :
        \/ EvNames = SubSeq(RunOrder, 1, n)
        \/ /\ step = "stopped"
           /\ EvNames = SubSeq(RunOrder, 1, n) \o <<"finalize">>

C3_Witness ==
    /\ step = "done"
    /\ Len(ydata) = 2
    /\ Len(events) = Len(RunOrder)

\* C7: the output of a channel is enabled only after clear status and then
\* the voltage write of the parameter value to that same channel; when clear
\* status or the voltage write fails, the output is not enabled and no
\* command addresses the other channel.
C7_InitializeOrder ==
    /\ \A j \in DOMAIN events :
        events[j].ev = "output" =>
            /\ events[j].ch \in Keys
            /\ \E h, k \in DOMAIN events :
                /\ h < k /\ k < j
                /\ events[h].ev = "clear_status"
                /\ events[k] = Ev("voltage", events[j].ch, params.voltage)
    /\ failedAt \in {"clear_status", "voltage"} =>
        /\ \A j \in DOMAIN events :
            events[j].ev # "output" /\ events[j].ch \in {0, params.channel}
        /\ cur.name # "output"

C7_Witness ==
    /\ step = "make_arb"
    /\ Returned
    /\ events[Len(events)] = Ev("output", 2, 0)
    /\ events[Len(events) - 1] = Ev("voltage", 2, 12)

\* C8: for a positive timestep the x list holds an entry for every sample,
\* the acquire step does not fail, and when it ends the records are, in
\* sample order, (i * timestep, i-th sample).
C8_AcquireAllSamples ==
    (params.timestep > 0) =>
        /\ step \in {"acquire", "send_arb"} => Len(xdata) >= Len(ydata)
        /\ failedAt # "acquire"
        /\ step = "send_arb" =>
            /\ Len(data) = Len(ydata)
            /\ \A k \in DOMAIN data :
                data[k] = [x |-> (k - 1) * params.timestep, y |-> ydata[k]]

\* C10: the loop that builds the x list always exits.
C10_LoopExits == (step = "xloop") ~> (step = "acquire")

====
